---- MODULE Spec2Model ----
\* Five state machines over the code of the repository:
\*   Spec           GridLayout of src/layout/grid.py: the canvas, the root area,
\*                  the name -> area lookup table, and the operations add_area,
\*                  split_area and create_grid;
\*   ContainerSpec  one container of src/layout/containers.py driven through
\*                  show, hide, update and render;
\*   DisplaySpec    OLEDDisplay of src/display.py: add_container,
\*                  remove_container, update (one tick), turn_off, turn_on and
\*                  create_standard_layout, the calls made on its grid, and
\*                  the tick of the display class of src/rpi5_oled/display.py;
\*   MainSpec       Application of src/main.py: initialize, the main loop of
\*                  run() with update_display, and the signal handler;
\*   AppSpec        OLEDApplication of src/app.py: run() step by step, with a
\*                  shutdown signal handled between any two steps.
\* A specification leaves the variables of the others at their initial values.
\*
\* GridArea objects live in a heap (objs); an object is named by its index. The
\* lookup table (areas) maps a name to the index of the object registered under
\* it, so that replacing a table entry and keeping the old object in a children
\* list are distinguished, as they are in Python.
\*
\* A relative size is a decimal literal given in ten-thousandths (0.85 is 8500).
\* For every extent and size of this model the IEEE-754 product width * size
\* truncates to the same integer as the exact product, and the float comparison
\* of the sum against 1.0 agrees with the exact one, so both are computed here
\* in integers.
\*
\* A layout call that raises ends the run: no caller in the repository catches
\* a layout error and goes on using the same GridLayout (display.py lets it
\* leave the constructor, app.py then builds a new display and layout).
EXTENDS Integers, Sequences, FiniteSets, TLC

VARIABLES width, height, areas, objs, last, ncalls,
          display, dlast, container, clast,
          application, alast, oled, pc

\* The layout, the last layout call and the number of calls made.
lvars == <<width, height, areas, objs, last>>

\* The display controller and the last call made on it.
dvars == <<display, dlast>>

\* The container driven on its own and the last call made on it.
cvars == <<container, clast>>

\* The Application of main.py with the last call made on it, the
\* OLEDApplication of app.py, and the position of the application in run().
avars == <<application, alast, oled, pc>>

vars == <<width, height, areas, objs, last, ncalls,
          display, dlast, container, clast,
          application, alast, oled, pc>>

\* ---------------------------------------------------------------- bounds

\* Most calls made on one layout.
MaxCalls == 3

\* Largest count / rows / cols argument tried.
MaxCount == 2

\* ---------------------------------------------------------------- inputs

\* The canvas: the layout of the grid tests.
CanvasSizes == { <<200, 100>> }

\* The band at the top of a w x h canvas, as tall as the display (32 pixels).
Band(w, h) == <<0, 0, w, 32>>

\* The rectangle in the middle of a w x h canvas, half as wide.
Middle(w, h) == <<w \div 4, 0, w \div 2, h>>

\* (name, rect, parent) arguments of add_area on a w x h canvas; the parent ""
\* stands for every falsy parent (None, ""). They are: the band, the middle, a
\* rectangle of negative width, a child larger than its parent, and rectangles
\* leaving the canvas on each side.
AddInputs(w, h) ==
    { <<"a", Band(w, h), "">>,
      <<"a", Middle(w, h), "">>,
      <<"a", <<0, 0, -1, 1>>, "">>,
      <<"b", <<0, 0, w, h>>, "a">>,
      <<"b", <<-1, 0, 2, 1>>, "">>,
      <<"b", <<0, -1, 1, 1>>, "">>,
      <<"b", <<1, 0, w, h>>, "a">>,
      <<"b", <<0, 1, w, h>>, "">> }

DirectionInputs == { "horizontal", "vertical", "diagonal" }

\* The sizes argument of split_area: None, or a list of ten-thousandths.
None == [given |-> FALSE, list |-> <<>>]

List(l) == [given |-> TRUE, list |-> l]

SizesInputs ==
    { None, List(<<>>),
      List(<<8500, 1500>>), List(<<2500, 7500>>), List(<<5000, 5005>>),
      List(<<5000, 4000>>), List(<<-3350, 13350>>) }

\* The names split_area and create_grid are called with: the root, an area
\* added by the caller, and the first child of a split.
TargetInputs == { "root", "a", "a_0" }

\* ---------------------------------------------------------------- helpers

RECURSIVE SumSeq(_)
SumSeq(s) == IF s = <<>> THEN 0 ELSE Head(s) + SumSeq(Tail(s))

Abs(n) == IF n < 0 THEN -n ELSE n

\* Python int() of the quotient n / d, d > 0: truncation toward zero.
Trunc(n, d) == IF n >= 0 THEN n \div d ELSE -((-n) \div d)

\* Python's // : floor division.
FloorDiv(n, d) == n \div d

Put(f, k, v) == [n \in DOMAIN f \cup {k} |-> IF n = k THEN v ELSE f[n]]

\* ---------------------------------------------------------------- GridArea

\* GridArea.__init__
GridArea(name, rect) == [name |-> name, rect |-> rect, children |-> <<>>]

\* GridArea.contains_point
contains_point(area, px, py) ==
    /\ area.rect[1] <= px /\ px < area.rect[1] + area.rect[3]
    /\ area.rect[2] <= py /\ py < area.rect[2] + area.rect[4]

\* GridArea.add_child, on the object at index p of heap h
add_child(h, p, c) == [h EXCEPT ![p].children = Append(@, c)]

\* self.root is the first object of the heap.
root == 1

\* ---------------------------------------------------------------- GridLayout

\* A layout value: the lookup table and the heap.
Layout(a, h) == [areas |-> a, objs |-> h]

\* The outcome of a call: the layout it leaves, the exception raised ("none"
\* when it returned) and the indices of the areas returned.
Outcome(L, exc, ret) == [L |-> L, exc |-> exc, ret |-> ret]

\* GridLayout.add_area
add_area(L, name, rect, parent) ==
    LET x == rect[1]
        y == rect[2]
        w == rect[3]
        h == rect[4]
    IN  IF x < 0 \/ y < 0 \/ x + w > width \/ y + h > height
        THEN Outcome(L, "ValueError: extends beyond display", <<>>)
        ELSE
          LET id     == Len(L.objs) + 1
              objs1  == Append(L.objs, GridArea(name, rect))
              areas1 == Put(L.areas, name, id)
          IN  IF parent # ""
              THEN IF parent \notin DOMAIN areas1
                   THEN Outcome(Layout(areas1, objs1),
                                "ValueError: parent does not exist", <<>>)
                   ELSE Outcome(Layout(areas1, add_child(objs1, areas1[parent], id)),
                                "none", <<id>>)
              ELSE Outcome(Layout(areas1, add_child(objs1, root, id)),
                           "none", <<id>>)

\* GridLayout.get_area: the index of the area, 0 for KeyError
get_area(L, name) == IF name \notin DOMAIN L.areas THEN 0 ELSE L.areas[name]

\* The pixels along the split axis of child i (from 0) of count children: the
\* last child takes what is left, the others int(extent * sizes[i]); fr[i + 1]
\* is sizes[i] as <<numerator, denominator>>.
segment(extent, fr, i, count, current_pos) ==
    IF i = count - 1
    THEN extent - current_pos
    ELSE Trunc(extent * fr[i + 1][1], fr[i + 1][2])

\* The loop of split_area from child i on; rect is the rectangle of the area
\* being split, read before the loop.
RECURSIVE split_loop(_, _, _, _, _, _, _, _, _)
split_loop(L, area_name, direction, count, fr, rect, i, current_pos, new_areas) ==
    IF i >= count
    THEN Outcome(L, "none", new_areas)
    ELSE IF direction \notin { "horizontal", "vertical" }
    THEN Outcome(L, "ValueError: direction", <<>>)
    ELSE
      LET x == rect[1]
          y == rect[2]
          w == rect[3]
          h == rect[4]
          seg == IF direction = "horizontal"
                 THEN segment(w, fr, i, count, current_pos)
                 ELSE segment(h, fr, i, count, current_pos)
          r == IF direction = "horizontal"
               THEN <<x + current_pos, y, seg, h>>
               ELSE <<x, y + current_pos, w, seg>>
          new_name == area_name \o "_" \o ToString(i)
          res == add_area(L, new_name, r, area_name)
      IN  IF res.exc # "none"
          THEN Outcome(res.L, res.exc, <<>>)
          ELSE split_loop(res.L, area_name, direction, count, fr, rect, i + 1,
                          current_pos + seg, new_areas \o res.ret)

\* "if sizes:" : None and the empty list are falsy.
truthy(sizes) == sizes.given /\ sizes.list # <<>>

\* invalid_sizes with the sum compared to a tolerance of 0.1 instead of 0.001.
invalid_sizes_tolerance(sizes, count) ==
    IF Len(sizes) # count
    THEN "ValueError: expected count sizes"
    ELSE IF Abs(SumSeq(sizes) - 10000) > 1000
    THEN "ValueError: sizes must sum to 1.0"
    ELSE "none"

\* The validation of a truthy sizes list: the error raised, "none" if valid.
invalid_sizes(sizes, count) ==
    IF Len(sizes) # count
    THEN "ValueError: expected count sizes"
    ELSE IF Abs(SumSeq(sizes) - 10000) > 10
    THEN "ValueError: sizes must sum to 1.0"
    ELSE "none"

\* GridLayout.split_area
split_area(L, area_name, direction, count, sizes) ==
    LET area == get_area(L, area_name)
    IN  IF area = 0
        THEN Outcome(L, "KeyError", <<>>)
        ELSE IF truthy(sizes) /\ invalid_sizes(sizes.list, count) # "none"
        THEN Outcome(L, invalid_sizes(sizes.list, count), <<>>)
        ELSE IF ~truthy(sizes) /\ count = 0
        THEN Outcome(L, "ZeroDivisionError", <<>>)
        ELSE
          LET fr == IF truthy(sizes)
                    THEN [i \in 1..count |-> <<sizes.list[i], 10000>>]
                    ELSE [i \in 1..count |-> <<1, count>>]
          IN  split_loop(L, area_name, direction, count, fr, L.objs[area].rect,
                         0, 0, <<>>)

\* The loops of create_grid from cell k on, in row-major order; the result is
\* the flattened grid.
RECURSIVE grid_loop(_, _, _, _, _, _, _)
grid_loop(L, area_name, rows, cols, rect, k, grid) ==
    IF k >= rows * cols
    THEN Outcome(L, "none", grid)
    ELSE
      LET x == rect[1]
          y == rect[2]
          w == rect[3]
          h == rect[4]
          row == k \div cols
          col == k % cols
          cell_width == FloorDiv(w, cols)
          cell_height == FloorDiv(h, rows)
          cell_x == x + col * cell_width
          cell_y == y + row * cell_height
          cell_w == IF col = cols - 1 THEN w - col * cell_width ELSE cell_width
          cell_h == IF row = rows - 1 THEN h - row * cell_height ELSE cell_height
          cell_name == area_name \o "_r" \o ToString(row) \o "c" \o ToString(col)
          res == add_area(L, cell_name, <<cell_x, cell_y, cell_w, cell_h>>, area_name)
      IN  IF res.exc # "none"
          THEN Outcome(res.L, res.exc, <<>>)
          ELSE grid_loop(res.L, area_name, rows, cols, rect, k + 1, grid \o res.ret)

\* GridLayout.create_grid
create_grid(L, area_name, rows, cols) ==
    IF rows < 1 \/ cols < 1
    THEN Outcome(L, "ValueError: rows and columns must be positive", <<>>)
    ELSE LET area == get_area(L, area_name)
         IN  IF area = 0
             THEN Outcome(L, "KeyError", <<>>)
             ELSE grid_loop(L, area_name, rows, cols, L.objs[area].rect, 0, <<>>)

\* ---------------------------------------------------------------- state

\* No object: a GridLayout builds no display controller and no container.
Nothing == <<>>

\* The call made last, its outcome, and the layout it started from.
NoCall ==
    [op |-> "init", name |-> "", rect |-> <<0, 0, 0, 0>>, parent |-> "",
     direction |-> "", count |-> 0, sizes |-> None, rows |-> 0, cols |-> 0,
     exc |-> "none", ret |-> <<>>, pre |-> Layout(<<>>, <<>>)]

\* GridLayout.__init__
Init ==
    /\ \E c \in CanvasSizes : width = c[1] /\ height = c[2]
    /\ areas = <<>>
    /\ objs = << GridArea("root", <<0, 0, width, height>>) >>
    /\ last = NoCall
    /\ ncalls = 0
    /\ display = Nothing /\ dlast = Nothing
    /\ container = Nothing /\ clast = Nothing
    /\ application = Nothing /\ alast = Nothing /\ oled = Nothing /\ pc = Nothing

AddArea ==
    /\ ncalls < MaxCalls
    /\ last.exc = "none"
    /\ \E in \in AddInputs(width, height) :
         LET r == add_area(Layout(areas, objs), in[1], in[2], in[3])
         IN  /\ areas' = r.L.areas
             /\ objs' = r.L.objs
             /\ last' = [NoCall EXCEPT !.op = "add_area", !.name = in[1],
                            !.rect = in[2], !.parent = in[3], !.exc = r.exc,
                            !.ret = r.ret, !.pre = Layout(areas, objs)]
    /\ ncalls' = ncalls + 1
    /\ UNCHANGED <<width, height, dvars, cvars, avars>>

SplitArea ==
    /\ ncalls < MaxCalls
    /\ last.exc = "none"
    /\ \E area_name \in TargetInputs, direction \in DirectionInputs,
          count \in 0..MaxCount, sizes \in SizesInputs :
         LET r == split_area(Layout(areas, objs), area_name, direction, count, sizes)
         IN  /\ areas' = r.L.areas
             /\ objs' = r.L.objs
             /\ last' = [NoCall EXCEPT !.op = "split_area", !.name = area_name,
                            !.direction = direction, !.count = count,
                            !.sizes = sizes, !.exc = r.exc, !.ret = r.ret,
                            !.pre = Layout(areas, objs)]
    /\ ncalls' = ncalls + 1
    /\ UNCHANGED <<width, height, dvars, cvars, avars>>

CreateGrid ==
    /\ ncalls < MaxCalls
    /\ last.exc = "none"
    /\ \E area_name \in TargetInputs, rows \in 0..MaxCount,
          cols \in 0..MaxCount :
         LET r == create_grid(Layout(areas, objs), area_name, rows, cols)
         IN  /\ areas' = r.L.areas
             /\ objs' = r.L.objs
             /\ last' = [NoCall EXCEPT !.op = "create_grid", !.name = area_name,
                            !.rows = rows, !.cols = cols, !.exc = r.exc,
                            !.ret = r.ret, !.pre = Layout(areas, objs)]
    /\ ncalls' = ncalls + 1
    /\ UNCHANGED <<width, height, dvars, cvars, avars>>

Next == AddArea \/ SplitArea \/ CreateGrid

Spec == Init /\ [][Next]_vars

\* ---------------------------------------------------------------- geometry

\* A rectangle holds no pixel (GridArea.contains_point is false everywhere).
Empty(r) == r[3] <= 0 \/ r[4] <= 0

\* The number of pixels of a rectangle.
Pixels(r) == IF Empty(r) THEN 0 ELSE r[3] * r[4]

\* No pixel lies in both rectangles.
Disjoint(r, q) ==
    \/ Empty(r) \/ Empty(q)
    \/ r[1] + r[3] <= q[1] \/ q[1] + q[3] <= r[1]
    \/ r[2] + r[4] <= q[2] \/ q[2] + q[4] <= r[2]

\* Every pixel of r is a pixel of p.
Within(r, p) ==
    \/ Empty(r)
    \/ /\ p[1] <= r[1] /\ r[1] + r[3] <= p[1] + p[3]
       /\ p[2] <= r[2] /\ r[2] + r[4] <= p[2] + p[4]

\* The rectangle r, as given, lies in the rectangle p.
Contained(r, p) ==
    /\ p[1] <= r[1] /\ r[1] + r[3] <= p[1] + p[3]
    /\ p[2] <= r[2] /\ r[2] + r[4] <= p[2] + p[4]

RECURSIVE SumPixels(_)
SumPixels(rs) == IF rs = <<>> THEN 0 ELSE Pixels(Head(rs)) + SumPixels(Tail(rs))

\* The rectangles rs are pairwise disjoint and their union is exactly p.
Tiles(rs, p) ==
    /\ \A i, j \in 1..Len(rs) : i # j => Disjoint(rs[i], rs[j])
    /\ \A i \in 1..Len(rs) : Within(rs[i], p)
    /\ SumPixels(rs) = Pixels(p)

\* ---------------------------------------------------------------- the last call

Ok == last.exc = "none"

\* The call left the lookup table and every area as they were.
Unchanged == Layout(areas, objs) = last.pre

\* The name the call was given was registered when it was made.
Registered == last.name \in DOMAIN last.pre.areas

\* The area the call was given, as it was when the call was made.
Target == last.pre.objs[last.pre.areas[last.name]]

\* The rectangles of the areas the call returned.
Returned == [k \in 1..Len(last.ret) |-> objs[last.ret[k]].rect]

\* The extent of a rectangle along the axis of the split.
Extent(r) == IF last.direction = "horizontal" THEN r[3] ELSE r[4]

SizesErrors ==
    { "ValueError: expected count sizes", "ValueError: sizes must sum to 1.0",
      "ValueError: invalid sizes" }

\* floor(n / d) for d > 0
Floor(n, d) == n \div d

\* ---------------------------------------------------------------- claims

\* C1. Tiling law: after every split_area call that returned, with count >= 1,
\* the rectangles of the children it created are pairwise disjoint and their
\* union is exactly the rectangle of the area that was split.
C1_TilingLaw ==
    (last.op = "split_area" /\ Ok /\ last.count >= 1)
        => Tiles(Returned, Target.rect)

\* C2. Rounding law: after a split_area call with sizes given that returned,
\* child i of 0..count-2 has floor(parentExtent * sizes[i]) pixels along the
\* split axis and the last child has the parent's extent minus the earlier ones.
C2_RoundingLaw ==
    (last.op = "split_area" /\ Ok /\ truthy(last.sizes))
        => \A i \in 1..last.count :
             Extent(Returned[i]) =
                IF i < last.count
                THEN Floor(Extent(Target.rect) * last.sizes.list[i], 10000)
                ELSE Extent(Target.rect)
                       - SumSeq([j \in 1..(i - 1) |-> Extent(Returned[j])])

\* C3. A split_area call on a registered area whose sizes list holds an entry
\* outside (0, 1] raises an invalid-sizes error and leaves the layout as it was.
C3_EntryOutsideUnitRejected ==
    (/\ last.op = "split_area" /\ Registered /\ last.sizes.given
     /\ \E i \in 1..Len(last.sizes.list) :
            last.sizes.list[i] <= 0 \/ last.sizes.list[i] > 10000)
        => (last.exc \in SizesErrors /\ Unchanged)

\* The sizes list has not exactly count entries, or its sum is further than
\* 0.001 from 1.0.
BadLengthOrSum ==
    \/ Len(last.sizes.list) # last.count
    \/ Abs(SumSeq(last.sizes.list) - 10000) > 10

C5_RootRegistered ==
    /\ get_area(Layout(areas, objs), "root") # 0
    /\ objs[areas["root"]].rect = <<0, 0, width, height>>

\* C6. add_area with a registered name raises, and whatever the call, every
\* name registered before it still names the same area, with the same rectangle.
C6_DuplicateRejected ==
    /\ (last.op = "add_area" /\ Registered) => ~Ok
    /\ \A n \in DOMAIN last.pre.areas :
         /\ n \in DOMAIN areas
         /\ areas[n] = last.pre.areas[n]
         /\ objs[areas[n]].rect = last.pre.objs[last.pre.areas[n]].rect

\* The rectangle leaves the canvas, in the sense of add_area's check.
ExceedsCanvas(r) ==
    r[1] < 0 \/ r[2] < 0 \/ r[1] + r[3] > width \/ r[2] + r[4] > height

\* C7. add_area with a rectangle that exceeds the canvas raises a bounds error
\* and registers nothing, and every registered rectangle has non-negative x, y,
\* width and height and lies within the canvas.
C7_WithinCanvas ==
    /\ (last.op = "add_area" /\ ExceedsCanvas(last.rect))
          => (last.exc = "ValueError: extends beyond display" /\ Unchanged)
    /\ \A n \in DOMAIN areas :
         LET r == objs[areas[n]].rect
         IN  /\ r[1] >= 0 /\ r[2] >= 0 /\ r[3] >= 0 /\ r[4] >= 0
             /\ ~ExceedsCanvas(r)

\* C8. add_area with a registered parent and a rectangle that is not contained
\* in the parent's raises, and every child of a registered or once registered
\* area lies within that area's rectangle.
C8_WithinParent ==
    /\ (/\ last.op = "add_area" /\ last.parent # ""
        /\ last.parent \in DOMAIN last.pre.areas
        /\ ~Contained(last.rect,
                      last.pre.objs[last.pre.areas[last.parent]].rect))
          => ~Ok
    /\ \A p \in 1..Len(objs) :
         p # root =>
           \A k \in 1..Len(objs[p].children) :
              Contained(objs[objs[p].children[k]].rect, objs[p].rect)

\* The area was split before: it has a child of the name split_area gives its
\* first child.
WasSplit ==
    \E k \in 1..Len(Target.children) :
       last.pre.objs[Target.children[k]].name = last.name \o "_0"

\* C9. split_area on an area that was split before raises and leaves the layout
\* (the first split's children, the table, the children list) as it was.
C9_ResplitRaises ==
    (last.op = "split_area" /\ Registered /\ WasSplit) => (~Ok /\ Unchanged)

\* The name create_grid gives the cell of a row and a column.
CellName(row, col) ==
    last.name \o "_r" \o ToString(row) \o "c" \o ToString(col)

\* C10. create_grid on a registered area with rows, cols >= 1 returns
\* rows * cols new areas in row-major order, registered under their cell names,
\* that tile the area, the last row and column taking the remainder; with
\* rows < 1 or cols < 1 it raises and leaves the layout as it was.
C10_GridLaw ==
    last.op = "create_grid" =>
      IF last.rows < 1 \/ last.cols < 1
      THEN ~Ok /\ Unchanged
      ELSE Registered =>
        /\ Ok
        /\ Len(last.ret) = last.rows * last.cols
        /\ \A k \in 1..Len(last.ret) :
             LET row == (k - 1) \div last.cols
                 col == (k - 1) % last.cols
                 cw == Floor(Target.rect[3], last.cols)
                 ch == Floor(Target.rect[4], last.rows)
             IN  /\ last.ret[k] > Len(last.pre.objs)
                 /\ get_area(Layout(areas, objs), CellName(row, col)) = last.ret[k]
                 /\ Returned[k][3] = IF col = last.cols - 1
                                     THEN Target.rect[3] - col * cw ELSE cw
                 /\ Returned[k][4] = IF row = last.rows - 1
                                     THEN Target.rect[4] - row * ch ELSE ch
        /\ Tiles(Returned, Target.rect)

\* ================================================================ containers
\* The containers of src/layout/containers.py. A container is a record of the
\* fields its class assigns; the fields of the other variants keep the values
\* given here and are never read. A content provider is a callable of the
\* caller: what it does when called (return a value or raise) is an input of
\* update. A drawing handle records the calls made on it, in order.

\* ---------------------------------------------------------------- values

\* A Python number in tenths (75.5 is a float of 755 tenths), and None.
IntValue(n) == [type |-> "int", tenths |-> 10 * n]

FloatValue(t) == [type |-> "float", tenths |-> t]

NoneValue == [type |-> "NoneType", tenths |-> 0]

\* float('nan'), a number that int() refuses with ValueError.
NaN == [type |-> "nan", tenths |-> 0]

\* int(value) of a number.
int(v) == Trunc(v.tenths, 10)

\* str(value) of a number that is not negative, as an f-string formats it.
str(v) ==
    IF v.type = "int"
    THEN ToString(v.tenths \div 10)
    ELSE IF v.type = "nan"
    THEN "nan"
    ELSE ToString(v.tenths \div 10) \o "." \o ToString(v.tenths % 10)

\* What a call of a provider does.
Returns(v) == [raised |-> FALSE, value |-> v]

Raises(v) == [raised |-> TRUE, value |-> v]

\* ---------------------------------------------------------------- fonts

\* A font set maps a key to a font; a font is the width it measures for one
\* character with getsize, 0 for a font that has no getsize attribute.
NoFont == -1

Has(fonts, key) == key \in DOMAIN fonts

get(fonts, key, default) == IF Has(fonts, key) THEN fonts[key] ELSE default

getsize(font, text) == font * Len(text)

\* ---------------------------------------------------------------- draw calls

Rectangle(p, q) == [op |-> "rectangle", p |-> p, q |-> q, text |-> "", fill |-> 1]

Text(p, text, fill) == [op |-> "text", p |-> p, q |-> p, text |-> text, fill |-> fill]

Line(p, q, fill) == [op |-> "line", p |-> p, q |-> q, text |-> "", fill |-> fill]

\* What a render call that returned did: the draw calls it made.
Drawn(calls) == [drawn |-> calls, exc |-> "none"]

\* What a render call that raised did: the draw calls it made before.
Raised(calls, exc) == [drawn |-> calls, exc |-> exc]

\* ---------------------------------------------------------------- Container

max_chars == 15

icon_size == 6

font_height == 8

\* Container.__init__
Container(cls, name) ==
    [cls |-> cls, name |-> name, x |-> 0, y |-> 0, width |-> 0, height |-> 0,
     visible |-> TRUE, debug |-> FALSE,
     icon_code |-> "", unit |-> "", value |-> IntValue(0),
     services |-> <<>>, statuses |-> <<>>,
     prefix |-> "", text |-> "", alignment |-> "left", orientation |-> ""]

\* Container.set_position
set_position(c, rect) ==
    [c EXCEPT !.x = rect[1], !.y = rect[2], !.width = rect[3], !.height = rect[4]]

\* Container.show
show(c) == [c EXCEPT !.visible = TRUE]

\* Container.hide
hide(c) == [c EXCEPT !.visible = FALSE]

\* Container.render drawing the outline whatever the visible flag.
Container_render_debug_only(c) ==
    IF c.debug
    THEN << Rectangle(<<c.x, c.y>>, <<c.x + c.width, c.y + c.height>>) >>
    ELSE <<>>

\* Container.render: the debug outline.
Container_render(c) ==
    IF c.debug /\ c.visible
    THEN << Rectangle(<<c.x, c.y>>, <<c.x + c.width, c.y + c.height>>) >>
    ELSE <<>>

\* ---------------------------------------------------------------- MetricContainer

\* MetricContainer.__init__
MetricContainer(name, icon_code, unit) ==
    [Container("MetricContainer", name) EXCEPT !.icon_code = icon_code, !.unit = unit]

\* MetricContainer.update
MetricContainer_update(c, result) ==
    IF result.raised
    THEN [c EXCEPT !.value = NoneValue]
    ELSE [c EXCEPT !.value = result.value]

\* The text MetricContainer.render draws for the value.
value_text(c) ==
    LET value == IF c.value # NoneValue THEN c.value ELSE IntValue(0)
    IN  IF c.unit = "%"
        THEN ToString(int(value)) \o c.unit
        ELSE str(value) \o c.unit

\* MetricContainer.render
MetricContainer_render(c, fonts) ==
    IF ~c.visible
    THEN Drawn(<<>>)
    ELSE
      LET both == Has(fonts, "metric_icon") /\ Has(fonts, "metric_text")
          icon_font == IF both THEN fonts["metric_icon"]
                       ELSE get(fonts, "small_icon", get(fonts, "icon", NoFont))
          text_font == IF both THEN fonts["metric_text"]
                       ELSE get(fonts, "small", get(fonts, "text", NoFont))
      IN  IF icon_font = NoFont \/ text_font = NoFont
          THEN Drawn(Container_render(c))
          ELSE IF c.unit = "%" /\ c.value = NaN
          THEN Raised(Container_render(c), "ValueError")
          ELSE
            LET text_width == getsize(text_font, value_text(c))
                text_x == c.x + FloorDiv(c.width - text_width, 2)
                text_y == c.y + FloorDiv(c.height, 2) - 2
                icon_width == getsize(icon_font, c.icon_code)
                icon_x == c.x + FloorDiv(c.width - icon_width, 2)
                icon_y == c.y + FloorDiv(c.height, 3) - 6
            IN  Drawn(Container_render(c)
                      \o << Text(<<icon_x, icon_y>>, c.icon_code, 1),
                            Text(<<text_x, text_y + 2>>, value_text(c), 1) >>)

\* ---------------------------------------------------------------- ServiceIconContainer

\* ServiceIconContainer.__init__; services lists (service name, icon code) in
\* the order of the dictionary.
ServiceIconContainer(name, services) ==
    [Container("ServiceIconContainer", name) EXCEPT !.services = services]

\* The loop of ServiceIconContainer.update from the k-th service on; results[k]
\* is what the provider of the k-th service does.
RECURSIVE update_loop(_, _, _)
update_loop(c, results, k) ==
    IF k > Len(c.services)
    THEN c
    ELSE
      LET status == IF results[k].raised THEN FALSE ELSE results[k].value
      IN  update_loop([c EXCEPT !.statuses = Put(c.statuses, c.services[k][1], status)],
                      results, k + 1)

\* ServiceIconContainer.update
ServiceIconContainer_update(c, results) == update_loop(c, results, 1)

\* The loop of ServiceIconContainer.render from the k-th service on.
RECURSIVE icons_loop(_, _, _, _, _)
icons_loop(c, base_x, current_y, padding, k) ==
    IF k > Len(c.services)
    THEN <<>>
    ELSE
      LET service_name == c.services[k][1]
          is_active == IF service_name \in DOMAIN c.statuses
                       THEN c.statuses[service_name] ELSE FALSE
      IN  << Text(<<base_x, current_y>>, c.services[k][2],
                  IF is_active THEN 1 ELSE 0) >>
          \o icons_loop(c, base_x, current_y + icon_size + padding, padding, k + 1)

\* ServiceIconContainer.render
ServiceIconContainer_render(c, fonts) ==
    IF ~c.visible
    THEN Drawn(<<>>)
    ELSE IF ~Has(fonts, "small_icon")
    THEN Drawn(Container_render(c))
    ELSE
      LET service_count == Len(c.services)
          total_height == service_count * icon_size
          padding == IF total_height < c.height
                     THEN FloorDiv(c.height - total_height, service_count + 1)
                     ELSE 0
          base_x == c.x + FloorDiv(c.width - icon_size, 2)
      IN  Drawn(Container_render(c) \o icons_loop(c, base_x, c.y + padding, padding, 1))

\* ---------------------------------------------------------------- TextContainer

\* TextContainer.__init__
TextContainer(name, prefix) ==
    [Container("TextContainer", name) EXCEPT !.prefix = prefix]

\* TextContainer.update
TextContainer_update(c, result) ==
    IF result.raised
    THEN [c EXCEPT !.text = "N/A"]
    ELSE [c EXCEPT !.text = result.value]

\* The string TextContainer.render draws.
display_text(c) ==
    LET text == IF c.text # "" THEN c.text ELSE "N/A"
        cut == IF Len(text) > max_chars
               THEN SubSeq(text, 1, max_chars - 2) \o ".."
               ELSE text
    IN  c.prefix \o cut

\* TextContainer.render
TextContainer_render(c, fonts) ==
    IF ~c.visible
    THEN Drawn(<<>>)
    ELSE IF ~Has(fonts, "text")
    THEN Drawn(Container_render(c))
    ELSE
      LET text_font == IF Has(fonts, "small") THEN fonts["small"] ELSE fonts["text"]
          y == c.y + FloorDiv(c.height - font_height, 2)
          text_width == getsize(text_font, display_text(c))
          x == IF c.alignment = "left" THEN c.x + 2
               ELSE IF c.alignment = "center"
               THEN c.x + FloorDiv(c.width - text_width, 2)
               ELSE c.x + c.width - text_width - 2
      IN  Drawn(Container_render(c) \o << Text(<<x, y>>, display_text(c), 1) >>)

\* ---------------------------------------------------------------- IconContainer

\* IconContainer.__init__
IconContainer(name, icon_code) ==
    [Container("IconContainer", name) EXCEPT !.icon_code = icon_code]

\* IconContainer.render
IconContainer_render(c, fonts) ==
    IF ~c.visible
    THEN Drawn(<<>>)
    ELSE IF ~Has(fonts, "metric_icon") /\ ~Has(fonts, "small_icon")
    THEN Drawn(Container_render(c))
    ELSE
      LET x == c.x + FloorDiv(c.width - icon_size, 2)
          y == c.y + FloorDiv(c.height - icon_size, 2)
      IN  Drawn(Container_render(c) \o << Text(<<x, y>>, c.icon_code, 1) >>)

\* ---------------------------------------------------------------- DividerContainer

\* DividerContainer.__init__
DividerContainer(name, orientation) ==
    [Container("DividerContainer", name) EXCEPT !.orientation = orientation]

\* DividerContainer.render
DividerContainer_render(c, fonts) ==
    IF ~c.visible
    THEN Drawn(<<>>)
    ELSE IF c.orientation = "horizontal"
    THEN LET y == c.y + FloorDiv(c.height, 2)
         IN  Drawn(Container_render(c)
                   \o << Line(<<c.x, y>>, <<c.x + c.width, y>>, 1) >>)
    ELSE LET x == c.x + FloorDiv(c.width, 2)
         IN  Drawn(Container_render(c)
                   \o << Line(<<x, c.y>>, <<x, c.y + c.height>>, 1) >>)

\* ---------------------------------------------------------------- dispatch

\* container.render(draw, fonts), by the class of the container; the class
\* Container stands for the subclass of the container tests, whose render is
\* Container.render and whose update does nothing.
render(c, fonts) ==
    CASE c.cls = "Container" -> Drawn(Container_render(c))
      [] c.cls = "MetricContainer" -> MetricContainer_render(c, fonts)
      [] c.cls = "ServiceIconContainer" -> ServiceIconContainer_render(c, fonts)
      [] c.cls = "TextContainer" -> TextContainer_render(c, fonts)
      [] c.cls = "IconContainer" -> IconContainer_render(c, fonts)
      [] c.cls = "DividerContainer" -> DividerContainer_render(c, fonts)

\* container.update(), by the class of the container; IconContainer.update and
\* DividerContainer.update do nothing.
update(c, result) ==
    CASE c.cls = "Container" -> c
      [] c.cls = "MetricContainer" -> MetricContainer_update(c, result)
      [] c.cls = "ServiceIconContainer" -> ServiceIconContainer_update(c, result)
      [] c.cls = "TextContainer" -> TextContainer_update(c, result)
      [] c.cls = "IconContainer" -> c
      [] c.cls = "DividerContainer" -> c

\* ---------------------------------------------------------------- container inputs

\* The font set load_fonts returns; its fonts measure no width.
LoadedFonts ==
    [key \in {"metric_icon", "service_icon", "metric_text", "hostname_text"} |-> 0]

\* The font set of the container tests.
TestFonts == [key \in {"icon", "text"} |-> 0]

\* A font set holding every key a render looks up; its fonts measure 6 pixels
\* for a character.
AllFonts ==
    [key \in {"icon", "text", "small", "small_icon", "metric_icon", "metric_text"} |-> 6]

FontSets == { LoadedFonts, TestFonts, AllFonts }

\* The first n services of the application, as (service name, icon code).
Services(n) == SubSeq(<< <<"docker", "D">>, <<"cephfs", "C">>, <<"k3s", "K">> >>, 1, n)

\* The containers as their constructors leave them.
Constructed ==
    { Container("Container", "test_container"),
      MetricContainer("cpu", "P", "%"),
      MetricContainer("temperature", "T", "C"),
      ServiceIconContainer("services", Services(1)),
      ServiceIconContainer("services", Services(2)),
      ServiceIconContainer("services", Services(3)),
      TextContainer("hostname", ""),
      TextContainer("ip_address", "IP: "),
      IconContainer("icon", "I"),
      DividerContainer("divider", "horizontal"),
      DividerContainer("divider", "vertical") }

\* The rectangle the container tests place a container on.
PlacedRect == <<10, 20, 100, 50>>

\* What OLEDDisplay.add_container does to the container it is given.
placed(c, rect) == [set_position(c, rect) EXCEPT !.debug = TRUE]

\* What the provider of a MetricContainer may do.
MetricResults ==
    { Returns(IntValue(42)), Returns(FloatValue(755)), Returns(NaN), Raises(NoneValue) }

\* What the provider of a TextContainer may do.
TextResults ==
    { Returns("raspberrypi"), Returns("192.168.100.200"),
      Returns("this-is-a-very-long-hostname"), Returns(""), Raises("") }

\* What the providers of the n services of a ServiceIconContainer may do.
ServiceResults(n) ==
    { [k \in 1..n |-> Returns(TRUE)],
      [k \in 1..n |-> Returns(FALSE)],
      [k \in 1..n |-> IF k = 1 THEN Raises(FALSE) ELSE Returns(TRUE)] }

\* What the content sources of a container may do in one update.
Results(c) ==
    CASE c.cls = "MetricContainer" -> MetricResults
      [] c.cls = "TextContainer" -> TextResults
      [] c.cls = "ServiceIconContainer" -> ServiceResults(Len(c.services))
      [] OTHER -> { Returns(NoneValue) }

\* ---------------------------------------------------------------- one container

\* The call made last on the container: its arguments, the draw calls it
\* made, the container it started from, and whether hide() was called before.
NoContainerCall ==
    [op |-> "init", fonts |-> <<>>, result |-> Returns(NoneValue),
     drawn |-> <<>>, exc |-> "none", pre |-> Nothing, was_hidden |-> FALSE]

ContainerInit ==
    /\ width = 0 /\ height = 0 /\ areas = <<>> /\ objs = <<>>
    /\ last = NoCall /\ ncalls = 0
    /\ display = Nothing /\ dlast = Nothing
    /\ application = Nothing /\ alast = Nothing /\ oled = Nothing /\ pc = Nothing
    /\ \E c \in Constructed : container \in { c, placed(c, PlacedRect) }
    /\ clast = NoContainerCall

Show ==
    /\ container' = show(container)
    /\ clast' = [NoContainerCall EXCEPT !.op = "show", !.pre = container,
                    !.was_hidden = clast.was_hidden]
    /\ UNCHANGED <<lvars, ncalls, dvars, avars>>

Hide ==
    /\ container' = hide(container)
    /\ clast' = [NoContainerCall EXCEPT !.op = "hide", !.pre = container,
                    !.was_hidden = TRUE]
    /\ UNCHANGED <<lvars, ncalls, dvars, avars>>

Update ==
    /\ \E result \in Results(container) :
         /\ container' = update(container, result)
         /\ clast' = [NoContainerCall EXCEPT !.op = "update", !.result = result,
                         !.pre = container, !.was_hidden = clast.was_hidden]
    /\ UNCHANGED <<lvars, ncalls, dvars, avars>>

Render ==
    /\ \E fonts \in FontSets :
         clast' = [NoContainerCall EXCEPT !.op = "render", !.fonts = fonts,
                      !.drawn = render(container, fonts).drawn,
                      !.exc = render(container, fonts).exc,
                      !.pre = container, !.was_hidden = clast.was_hidden]
    /\ UNCHANGED <<lvars, ncalls, dvars, avars, container>>

ContainerNext == Show \/ Hide \/ Update \/ Render

ContainerSpec == ContainerInit /\ [][ContainerNext]_vars

\* ================================================================ display
\* OLEDDisplay of src/display.py. The containers dictionary is the sequence of
\* its values in the order of the dictionary (a key is the name of its value);
\* the image is the list of draw calls made on the buffer since it was last
\* cleared; the device keeps the image it was last given. The display is the
\* one the display tests build: its grid is GridLayout(width, height) and its
\* areas dictionary holds the root area under 'root'. The clock is the number
\* of calls made so far.

\* ---------------------------------------------------------------- bounds

\* Most calls made on one display.
MaxOps == 4

\* ---------------------------------------------------------------- inputs

\* Display sizes: the default of OLEDDisplay.__init__.
DisplaySizes == { <<128, 32>> }

\* (container, area name) arguments of add_container: containers of the
\* application on the root area, a second container named 'cpu', and two
\* calls naming an area that does not exist.
ContainerInputs ==
    { << MetricContainer("cpu", "P", "%"), "root" >>,
      << MetricContainer("cpu", "Q", "%"), "root" >>,
      << TextContainer("hostname", ""), "root" >>,
      << ServiceIconContainer("services", Services(2)), "root" >>,
      << MetricContainer("cpu", "Q", "%"), "missing" >>,
      << TextContainer("hostname", ""), "missing" >> }

\* container_name arguments of remove_container.
NameInputs == { "cpu", "missing" }

\* What the content sources of a container do when they work.
Working(c) ==
    CASE c.cls = "MetricContainer" -> Returns(IntValue(42))
      [] c.cls = "TextContainer" -> Returns("raspberrypi")
      [] c.cls = "ServiceIconContainer" -> [k \in 1..Len(c.services) |-> Returns(TRUE)]
      [] OTHER -> Returns(NoneValue)

\* What the content sources of a container do when a metric reads as
\* float('nan').
Undefined(c) ==
    IF c.cls = "MetricContainer" THEN Returns(NaN) ELSE Working(c)

\* What the content sources of a container do when the first of them fails.
Failing(c) ==
    CASE c.cls = "MetricContainer" -> Raises(NoneValue)
      [] c.cls = "TextContainer" -> Raises("")
      [] c.cls = "ServiceIconContainer" ->
           [k \in 1..Len(c.services) |-> IF k = 1 THEN Raises(FALSE) ELSE Returns(TRUE)]
      [] OTHER -> Returns(NoneValue)

\* ---------------------------------------------------------------- OLEDDisplay

\* The position of the key name in the dictionary, 0 if it is not a key.
index(containers, name) ==
    IF \E i \in 1..Len(containers) : containers[i].name = name
    THEN CHOOSE i \in 1..Len(containers) : containers[i].name = name
    ELSE 0

\* containers[c.name] = c: a key already in the dictionary keeps its position.
setitem(containers, c) ==
    IF index(containers, c.name) = 0
    THEN Append(containers, c)
    ELSE [containers EXCEPT ![index(containers, c.name)] = c]

\* del containers[name]
delitem(containers, name) == SelectSeq(containers, LAMBDA d : d.name # name)

\* What a call on the display did: the display it left, the exception that
\* left the call, the value returned and the events of the call in order.
Result(d, exc, ret, events) == [d |-> d, exc |-> exc, ret |-> ret, events |-> events]

\* OLEDDisplay.add_container storing the container before it looks up the area.
add_container_store_first(d, c, area_name) ==
    IF area_name \notin DOMAIN d.areas
    THEN Result([d EXCEPT !.containers = setitem(@, c)], "KeyError", "None", <<>>)
    ELSE Result([d EXCEPT !.containers = setitem(@, placed(c, d.areas[area_name]))],
                "none", "None", <<>>)

\* OLEDDisplay.add_container
add_container(d, c, area_name) ==
    IF area_name \notin DOMAIN d.areas
    THEN Result(d, "KeyError", "None", <<>>)
    ELSE Result([d EXCEPT !.containers = setitem(@, placed(c, d.areas[area_name]))],
                "none", "None", <<>>)

\* OLEDDisplay.remove_container
remove_container(d, container_name) ==
    IF index(d.containers, container_name) # 0
    THEN Result([d EXCEPT !.containers = delitem(@, container_name)], "none", "None", <<>>)
    ELSE Result(d, "none", "None", <<>>)

\* A content source of the container raises.
fails(c, result) ==
    CASE c.cls = "MetricContainer" -> result.raised
      [] c.cls = "TextContainer" -> result.raised
      [] c.cls = "ServiceIconContainer" -> \E k \in 1..Len(result) : result[k].raised
      [] OTHER -> FALSE

\* OLEDDisplay.update_containers with containers that let the exception of a
\* content source leave update(): the loop ends at the first such container.
update_containers_propagating(d, results) ==
    LET bad == { i \in 1..Len(d.containers) : fails(d.containers[i], results[i]) }
        stop == IF bad = {} THEN Len(d.containers) + 1
                ELSE CHOOSE i \in bad : \A j \in bad : i <= j
    IN  Result([d EXCEPT !.containers =
                   [i \in 1..Len(d.containers) |->
                      IF i < stop THEN update(d.containers[i], results[i])
                      ELSE d.containers[i]]],
               IF bad = {} THEN "none" ELSE "Exception", "None",
               [i \in 1..(IF bad = {} THEN Len(d.containers) ELSE stop) |->
                  <<"update", d.containers[i].name>>])

\* OLEDDisplay.update_containers; results[i] is what the content sources of
\* the i-th container do. No update() of a container raises: each catches the
\* exception of its content source.
update_containers(d, results) ==
    Result([d EXCEPT !.containers =
               [i \in 1..Len(d.containers) |-> update(d.containers[i], results[i])]],
           "none", "None",
           [i \in 1..Len(d.containers) |-> <<"update", d.containers[i].name>>])

\* GridLayout.__init__: the root area spans the canvas and is in no lookup
\* table.
GridLayout(w, h) == Layout(<<>>, << GridArea("root", <<0, 0, w, h>>) >>)

\* The outcome of a call that works on the display and on its grid.
Built(d, L, exc) == [d |-> d, L |-> L, exc |-> exc, ret |-> "None", events |-> <<>>]

\* The areas dictionary create_standard_layout builds from the areas the
\* three splits returned: a key maps to the rectangle of its area.
standard_areas(L, top, bottom, metrics_area, services_area, cpu_col, memory_col, temp_col) ==
    [key \in { "root", "top", "bottom", "metrics", "services", "cpu", "memory",
               "temperature", "hostname", "ip_address" } |->
       CASE key = "root" -> L.objs[root].rect
         [] key = "top" -> L.objs[top].rect
         [] key = "metrics" -> L.objs[metrics_area].rect
         [] key = "services" -> L.objs[services_area].rect
         [] key = "cpu" -> L.objs[cpu_col].rect
         [] key = "memory" -> L.objs[memory_col].rect
         [] key = "temperature" -> L.objs[temp_col].rect
         [] OTHER -> L.objs[bottom].rect]

\* OLEDDisplay.create_standard_layout: a new grid, three splits, the areas
\* dictionary, then the loop that calls grid.has_area, a method GridLayout
\* does not have. The grid is replaced before the first split; the
\* dictionary is assigned after the last.
create_standard_layout(d) ==
    LET grid == GridLayout(width, height)
        s1 == split_area(grid, "root", "horizontal", 2, List(<<8000, 2000>>))
        top == s1.ret[1]
        bottom == s1.ret[2]
        s2 == split_area(s1.L, s1.L.objs[top].name, "vertical", 2, List(<<8000, 2000>>))
        metrics_area == s2.ret[1]
        services_area == s2.ret[2]
        s3 == split_area(s2.L, s2.L.objs[metrics_area].name, "vertical", 3,
                         List(<<3300, 3300, 3400>>))
    IN  IF s1.exc # "none" THEN Built(d, s1.L, s1.exc)
        ELSE IF s2.exc # "none" THEN Built(d, s2.L, s2.exc)
        ELSE IF s3.exc # "none" THEN Built(d, s3.L, s3.exc)
        ELSE Built([d EXCEPT !.areas =
                       standard_areas(s3.L, top, bottom, metrics_area, services_area,
                                      s3.ret[1], s3.ret[2], s3.ret[3])],
                   s3.L, "AttributeError")

\* OLEDDisplay.clear
clear(d) == Result([d EXCEPT !.image = <<>>], "none", "None", << <<"clear", "">> >>)

\* The loop of OLEDDisplay.render_containers from the i-th container on.
RECURSIVE render_loop(_, _)
render_loop(d, i) ==
    IF i > Len(d.containers)
    THEN Result(d, "none", "None", <<>>)
    ELSE
      LET c == render(d.containers[i], d.fonts)
          painted == [d EXCEPT !.image = @ \o c.drawn]
          r == IF c.exc # "none"
               THEN Result(painted, c.exc, "None", <<>>)
               ELSE render_loop(painted, i + 1)
      IN  [r EXCEPT !.events = << <<"render", d.containers[i].name>> >> \o @]

\* OLEDDisplay.render_containers
render_containers(d) == render_loop(d, 1)

\* OLEDDisplay.show; sink is what device.display does and now is the time.
show_display(d, sink, now) ==
    IF sink = "ok"
    THEN Result([d EXCEPT !.shown = d.image, !.frames = @ + 1, !.last_update = now],
                "none", "None", << <<"flush", "">> >>)
    ELSE Result(d, "none", "None", << <<"flush", "">> >>)

\* OLEDDisplay.update clearing the buffer before it updates the containers.
update_display_clear_first(d, results, sink, now) ==
    LET c == clear(d)
        u == update_containers(c.d, results)
        r == render_containers(u.d)
        f == show_display(r.d, sink, now)
    IN  Result(f.d, "none", "True", c.events \o u.events \o r.events \o f.events)

\* OLEDDisplay.update: the four phases in a try block, False when one raises.
update_display(d, results, sink, now) ==
    LET u == update_containers(d, results)
        c == clear(u.d)
        r == render_containers(c.d)
        f == show_display(r.d, sink, now)
    IN  IF u.exc # "none"
        THEN Result(u.d, "none", "False", u.events)
        ELSE IF r.exc # "none"
        THEN Result(r.d, "none", "False", u.events \o c.events \o r.events)
        ELSE IF f.exc # "none"
        THEN Result(f.d, "none", "False", u.events \o c.events \o r.events \o f.events)
        ELSE Result(f.d, "none", "True", u.events \o c.events \o r.events \o f.events)

\* OLEDDisplay.render of the rpi5_oled package: clear, render every
\* container, show; nothing catches what a render raises.
rpi5_oled_render(d, sink, now) ==
    LET c == clear(d)
        r == render_containers(c.d)
        f == show_display(r.d, sink, now)
    IN  IF r.exc # "none"
        THEN Result(r.d, r.exc, "None", c.events \o r.events)
        ELSE Result(f.d, "none", "None", c.events \o r.events \o f.events)

\* OLEDDisplay.update of the rpi5_oled package: update_containers, then
\* render; it has no try block and returns None.
rpi5_oled_update(d, results, sink, now) ==
    LET u == update_containers(d, results)
        r == rpi5_oled_render(u.d, sink, now)
    IN  Result(r.d, r.exc, "None", u.events \o r.events)

\* OLEDDisplay.turn_off setting the flag whatever the device does.
turn_off_always(d, device) == Result([d EXCEPT !.is_on = FALSE], "none", "None", <<>>)

\* OLEDDisplay.turn_off; device is what device.hide does.
turn_off(d, device) ==
    IF d.is_on /\ device = "ok"
    THEN Result([d EXCEPT !.is_on = FALSE], "none", "None", <<>>)
    ELSE Result(d, "none", "None", <<>>)

\* OLEDDisplay.turn_on; device is what device.show does.
turn_on(d, device) ==
    IF ~d.is_on /\ device = "ok"
    THEN Result([d EXCEPT !.is_on = TRUE], "none", "None", <<>>)
    ELSE Result(d, "none", "None", <<>>)

\* ---------------------------------------------------------------- display state

\* The call made last on the display: its arguments, its outcome and the
\* display it started from.
NoDisplayCall ==
    [op |-> "init", container |-> Nothing, name |-> "", failing |-> 0, nan |-> 0,
     sink |-> "ok", exc |-> "none", ret |-> "None", events |-> <<>>,
     pre |-> Nothing, grid |-> Layout(<<>>, <<>>)]

\* OLEDDisplay.__init__ up to the standard layout, and the areas dictionary
\* of the display tests.
DisplayInit ==
    /\ \E s \in DisplaySizes : width = s[1] /\ height = s[2]
    /\ areas = <<>>
    /\ objs = << GridArea("root", <<0, 0, width, height>>) >>
    /\ last = NoCall
    /\ ncalls = 0
    /\ display = [areas |-> [name \in {"root"} |-> objs[root].rect],
                  containers |-> <<>>, fonts |-> LoadedFonts, is_on |-> TRUE,
                  last_update |-> 0, image |-> <<>>, shown |-> <<>>, frames |-> 0]
    /\ dlast = NoDisplayCall
    /\ container = Nothing /\ clast = Nothing
    /\ application = Nothing /\ alast = Nothing /\ oled = Nothing /\ pc = Nothing

\* A call on the display; a call that raises ends the run.
Called(r, call) ==
    /\ ncalls < MaxOps
    /\ dlast.exc = "none"
    /\ display' = r.d
    /\ dlast' = [call EXCEPT !.exc = r.exc, !.ret = r.ret, !.events = r.events,
                    !.pre = display, !.grid = Layout(areas, objs)]
    /\ ncalls' = ncalls + 1
    /\ UNCHANGED <<lvars, cvars, avars>>

\* A call that works on the display and on its grid; a call that raises ends
\* the run.
GridCalled(r, call) ==
    /\ ncalls < MaxOps
    /\ dlast.exc = "none"
    /\ display' = r.d
    /\ areas' = r.L.areas
    /\ objs' = r.L.objs
    /\ dlast' = [call EXCEPT !.exc = r.exc, !.pre = display,
                    !.grid = Layout(areas, objs)]
    /\ ncalls' = ncalls + 1
    /\ UNCHANGED <<width, height, last, cvars, avars>>

CreateStandardLayout ==
    GridCalled(create_standard_layout(display),
               [NoDisplayCall EXCEPT !.op = "create_standard_layout"])

\* The calls made on display.grid: an area over the left half of the canvas
\* is added, split in two, or partitioned in a grid of one row.
GridInputs == { "add_area", "split_area", "create_grid" }

grid_call(L, op) ==
    CASE op = "add_area" -> add_area(L, "a", <<0, 0, width \div 2, height>>, "")
      [] op = "split_area" -> split_area(L, "a", "horizontal", 2, None)
      [] op = "create_grid" -> create_grid(L, "a", 1, 2)

\* A call of the grid of the display.
GridCall ==
    \E op \in GridInputs :
      LET r == grid_call(Layout(areas, objs), op)
      IN  GridCalled(Built(display, r.L, r.exc),
                     [NoDisplayCall EXCEPT !.op = "grid." \o op, !.name = "a"])

AddContainer ==
    \E in \in ContainerInputs :
      Called(add_container(display, in[1], in[2]),
             [NoDisplayCall EXCEPT !.op = "add_container", !.container = in[1],
                 !.name = in[2]])

RemoveContainer ==
    \E container_name \in NameInputs :
      Called(remove_container(display, container_name),
             [NoDisplayCall EXCEPT !.op = "remove_container", !.name = container_name])

\* What the content sources do in one tick: those of at most one container
\* fail and at most one metric reads as float('nan').
TickResults(containers, failing, nan) ==
    [i \in 1..Len(containers) |->
       IF i = failing THEN Failing(containers[i])
       ELSE IF i = nan THEN Undefined(containers[i])
       ELSE Working(containers[i])]

\* The containers whose metric may read as float('nan'); 0 stands for none.
Metrics(containers) ==
    {0} \cup { i \in 1..Len(containers) : containers[i].cls = "MetricContainer" }

\* One tick.
UpdateDisplay ==
    \E failing \in 0..Len(display.containers), nan \in Metrics(display.containers),
       sink \in {"ok", "fail"} :
      /\ nan # 0 => nan # failing
      /\ Called(update_display(display, TickResults(display.containers, failing, nan),
                               sink, ncalls + 1),
                [NoDisplayCall EXCEPT !.op = "update", !.failing = failing,
                    !.nan = nan, !.sink = sink])

\* One tick of the display class of the rpi5_oled package, which keeps the
\* same registry, buffer and device.
UpdatePackageDisplay ==
    \E failing \in 0..Len(display.containers), nan \in Metrics(display.containers),
       sink \in {"ok", "fail"} :
      /\ nan # 0 => nan # failing
      /\ Called(rpi5_oled_update(display, TickResults(display.containers, failing, nan),
                                 sink, ncalls + 1),
                [NoDisplayCall EXCEPT !.op = "rpi5_oled.update", !.failing = failing,
                    !.nan = nan, !.sink = sink])

TurnOff ==
    \E device \in {"ok", "fail"} :
      Called(turn_off(display, device),
             [NoDisplayCall EXCEPT !.op = "turn_off", !.sink = device])

TurnOn ==
    \E device \in {"ok", "fail"} :
      Called(turn_on(display, device),
             [NoDisplayCall EXCEPT !.op = "turn_on", !.sink = device])

DisplayNext ==
    \/ AddContainer \/ RemoveContainer \/ UpdateDisplay \/ UpdatePackageDisplay
    \/ TurnOff \/ TurnOn \/ CreateStandardLayout \/ GridCall

DisplaySpec == DisplayInit /\ [][DisplayNext]_vars

\* ---------------------------------------------------------------- the last display call

\* The names of the registry in paint order.
Names(containers) == [i \in 1..Len(containers) |-> containers[i].name]

\* The last call was a tick.
Ticked == dlast.op = "update"

\* The events of one tick over the containers: every update, the clear,
\* every render in the order of the registry, the flush.
Phases(containers) ==
    [i \in 1..Len(containers) |-> <<"update", containers[i].name>>]
    \o << <<"clear", "">> >>
    \o [i \in 1..Len(containers) |-> <<"render", containers[i].name>>]
    \o << <<"flush", "">> >>

\* The container holds the unavailable sentinel of its variant.
Unavailable(c) ==
    CASE c.cls = "MetricContainer" -> c.value = NoneValue
      [] c.cls = "TextContainer" -> c.text = "N/A"
      [] c.cls = "ServiceIconContainer" -> c.statuses[c.services[1][1]] = FALSE
      [] OTHER -> FALSE

\* C11. add_container with an area name that does not exist fails and leaves
\* the display as it was: the registry has the same keys and values, and the
\* container is not in it unless a container of that name was there before.
C11_MissingAreaLeavesRegistry ==
    (dlast.op = "add_container" /\ dlast.name \notin DOMAIN dlast.pre.areas)
    => /\ dlast.exc = "KeyError"
       /\ display = dlast.pre
       /\ index(dlast.pre.containers, dlast.container.name) = 0
            => index(display.containers, dlast.container.name) = 0

\* add_container named a missing area on a display that had a container, and
\* the container given was not registered.
C11_Witness ==
    /\ dlast.op = "add_container"
    /\ dlast.name = "missing"
    /\ display.containers # <<>>
    /\ index(display.containers, dlast.container.name) = 0

\* C12. Re-registering a container under a name already in the registry
\* replaces the old entry and moves the name to the last position of the
\* paint order.
C12_ReRegisteredPaintsLast ==
    ( /\ dlast.op = "add_container"
      /\ dlast.exc = "none"
      /\ index(dlast.pre.containers, dlast.container.name) # 0 )
    => /\ Len(display.containers) = Len(dlast.pre.containers)
       /\ display.containers[Len(display.containers)]
            = placed(dlast.container, display.areas[dlast.name])

\* A render() of the tick made last raised.
RenderRaised ==
    \E i \in 1..Len(display.containers) :
      render(display.containers[i], display.fonts).exc # "none"

C15_FlushFailureReported ==
    Ticked =>
      /\ dlast.exc = "none"
      /\ dlast.sink = "fail" => dlast.ret # "True"
      /\ dlast.sink = "ok" => dlast.ret = "True"

\* The registry, every container and the layout are as before the call.
FrameKept ==
    /\ display.containers = dlast.pre.containers
    /\ display.areas = dlast.pre.areas
    /\ Layout(areas, objs) = dlast.grid

Rendered == clast.op = "render"

\* The text draw calls of the last render, in order.
Texts == SelectSeq(clast.drawn, LAMBDA d : d.op = "text")

\* C17. For every container variant render() is a no-op while the container
\* is hidden: it makes no draw call at all (no text, no line, no debug
\* rectangle), whatever the debug flag and the stored content; a container
\* that is visible again draws (one of the five variants, or any container
\* with the debug flag on, given a font set holding every key).
C17_HiddenRenderDrawsNothing ==
    Rendered =>
      /\ ~container.visible => clast.drawn = <<>>
      /\ ( /\ container.visible
           /\ clast.fonts = AllFonts
           /\ clast.exc = "none"
           /\ (container.debug \/ container.cls # "Container") )
         => clast.drawn # <<>>

\* A hidden container with the debug flag on was rendered.
C17_Witness ==
    /\ Rendered
    /\ ~container.visible
    /\ container.debug
    /\ clast.fonts = AllFonts

\* C18. A MetricContainer whose last update failed draws the literal text
\* 'N/A' in place of the value, for any unit, and never a number.
C18_UnavailableDrawsNA ==
    ( /\ Rendered
      /\ container.cls = "MetricContainer"
      /\ container.visible
      /\ container.value = NoneValue )
    => /\ Len(Texts) = 2
       /\ Texts[2].text = "N/A"

\* The string the claim C19 has drawn: prefix + text, cut to max_chars - 2
\* characters and '..' when it is longer than max_chars.
composed_text(c) ==
    LET composed == c.prefix \o c.text
    IN  IF Len(composed) > max_chars
        THEN SubSeq(composed, 1, max_chars - 2) \o ".."
        ELSE composed

\* C19. TextContainer.render draws prefix + text, cut to its first
\* max_chars - 2 characters followed by '..' when the composed string is
\* longer than max_chars; the drawn string never has more than max_chars
\* characters (checked for every prefix and every text that is not empty).
C19_TruncationLaw ==
    ( /\ Rendered
      /\ container.cls = "TextContainer"
      /\ container.visible
      /\ container.text # ""
      /\ Has(clast.fonts, "text") )
    => /\ Len(Texts) = 1
       /\ Texts[1].text = composed_text(container)
       /\ Len(Texts[1].text) <= max_chars

\* C20. ServiceIconContainer.render places its n services in row-major order
\* in min(2, n) columns: one glyph per service, two services of the same row
\* share y and differ in x, two services of different rows differ in y.
C20_IconGrid ==
    ( /\ Rendered
      /\ container.cls = "ServiceIconContainer"
      /\ container.visible
      /\ Has(clast.fonts, "small_icon") )
    => LET n == Len(container.services)
           columns == IF n < 2 THEN n ELSE 2
           row(i) == (i - 1) \div columns
       IN  /\ Len(Texts) = n
           /\ \A i, j \in 1..n :
                i # j =>
                  IF row(i) = row(j)
                  THEN Texts[i].p[2] = Texts[j].p[2] /\ Texts[i].p[1] # Texts[j].p[1]
                  ELSE Texts[i].p[2] # Texts[j].p[2]

\* C21. With a font set holding only the keys 'icon' and 'text', render() of
\* a visible container falls back to those fonts and draws its content:
\* MetricContainer its icon and its value (two text draws),
\* ServiceIconContainer one glyph per service, TextContainer its string once.
C21_FallbackFontsDraw ==
    (Rendered /\ container.visible /\ clast.fonts = TestFonts)
    => /\ container.cls = "MetricContainer" => Len(Texts) = 2
       /\ container.cls = "ServiceIconContainer" => Len(Texts) = Len(container.services)
       /\ container.cls = "TextContainer" => Len(Texts) = 1

\* C27. Every add_area call that raises (rectangle outside the canvas, or
\* parent name not registered) leaves the layout exactly as it was: the lookup
\* table has the same names, every children list is unchanged, and a name
\* that was not registered before cannot be looked up afterwards.
C27_RejectedAddAreaLeavesLayout ==
    (last.op = "add_area" /\ ~Ok)
    => /\ Unchanged
       /\ ~Registered => get_area(Layout(areas, objs), last.name) = 0

\* The events of the tick made last that are of the given kind.
Events(kind) == SelectSeq(dlast.events, LAMBDA e : e[1] = kind)

\* C24. A tick made while the display is off (is_on false) still calls
\* update() on every registered container but does not flush the surface to
\* the device: no flush is attempted and the frame shown stays as it was. A
\* tick made while the display is on flushes.
C24_NoFlushWhileOff ==
    /\ (Ticked /\ ~dlast.pre.is_on)
       => /\ Events("update") =
               [i \in 1..Len(dlast.pre.containers) |->
                  <<"update", dlast.pre.containers[i].name>>]
          /\ Events("flush") = <<>>
          /\ display.frames = dlast.pre.frames
          /\ display.shown = dlast.pre.shown
    /\ (Ticked /\ dlast.pre.is_on) => Len(Events("flush")) = 1

\* The last call was a tick of either display class.
TickedEither == dlast.op \in {"update", "rpi5_oled.update"}

\* C28. OLEDDisplay.update never raises. It returns True when the update,
\* clear, render and flush phases all ran, and False when a render() raised,
\* in which case the tick does not flush; every call starts with the update
\* phase over every registered container.
C28_UpdateNeverRaises ==
    TickedEither =>
      /\ dlast.exc = "none"
      /\ Events("update") =
           [i \in 1..Len(dlast.pre.containers) |->
              <<"update", dlast.pre.containers[i].name>>]
      /\ SubSeq(dlast.events, 1, Len(dlast.pre.containers)) = Events("update")
      /\ ~RenderRaised => dlast.ret = "True" /\ dlast.events = Phases(dlast.pre.containers)
      /\ RenderRaised =>
           /\ dlast.ret = "False"
           /\ Events("flush") = <<>>
           /\ display.frames = dlast.pre.frames
           /\ display.shown = dlast.pre.shown

\* C28 for the tick of src/display.py alone.
C28_UpdateOfDisplayNeverRaises == dlast.op = "rpi5_oled.update" \/ C28_UpdateNeverRaises

\* The rectangle of a container.
Position(c) == <<c.x, c.y, c.width, c.height>>

\* C23. Once a container has been bound with add_container the area tree of
\* the layout no longer changes: no later call adds, replaces or
\* re-partitions areas, and at every tick the position of each registered
\* container is the rectangle of the area it was bound to ('root' here).
C23_TreeFrozenOnceBound ==
    /\ [][display.containers # <<>> => (areas' = areas /\ objs' = objs)]_vars
    /\ [](Ticked => \A i \in 1..Len(display.containers) :
                      Position(display.containers[i]) = display.areas["root"])

\* The last call was create_standard_layout.
LaidOut == dlast.op = "create_standard_layout"

\* C25. In create_standard_layout the two areas of the first split of the
\* root, 'top' and 'bottom', are stacked rows: each spans the width of the
\* canvas, the second lies below the first, and their heights add up to the
\* height of the canvas.
C25_FirstSplitStackedRows ==
    LaidOut =>
      /\ { "top", "bottom" } \subseteq DOMAIN display.areas
      /\ LET top == display.areas["top"]
             bottom == display.areas["bottom"]
         IN  /\ top[1] = 0 /\ top[3] = width
             /\ bottom[1] = 0 /\ bottom[3] = width
             /\ top[2] = 0 /\ bottom[2] = top[4]
             /\ top[4] + bottom[4] = height

\* C26. After create_standard_layout the areas dictionary of the display
\* holds the standard keys, and every key other than 'root' is a name the
\* grid resolves: get_area(key) succeeds and returns the area stored under
\* that key.
C26_AreaKeysResolve ==
    LaidOut =>
      /\ { "top", "bottom", "metrics", "services", "cpu", "memory", "temperature",
           "hostname", "ip_address" } \subseteq DOMAIN display.areas
      /\ \A key \in DOMAIN display.areas \ { "root" } :
           /\ get_area(Layout(areas, objs), key) # 0
           /\ objs[get_area(Layout(areas, objs), key)].rect = display.areas[key]

\* ---------------------------------------------------------------- Application (main.py)

\* The ticks of one run of the main loop.
MaxUpdates == 7

\* config.MAX_RETRIES
MAX_RETRIES == 3

\* Application.max_consecutive_errors
max_consecutive_errors == 5

\* Application.__init__; display and providers tell whether the attribute is
\* truthy, constructed counts the OLEDDisplay objects built.
Application ==
    [running |-> TRUE, display |-> FALSE, providers |-> FALSE, error_count |-> 0,
     constructed |-> 0, cleared |-> 0]

\* What one attempt of initialize meets: OLEDDisplay() and
\* get_enabled_providers() each return or raise.
AttemptInputs == [display : { "ok", "raises" }, providers : { "ok", "raises" }]

\* What the attempts of one initialize call meet.
InitializeInputs == [1..MAX_RETRIES -> AttemptInputs]

\* The outcome of a call on the application: the application it leaves, what
\* it returned, and the number of attempts initialize made in it.
Initialized(a, ret, attempts) == [a |-> a, ret |-> ret, attempts |-> attempts]

\* The try block of initialize building a display in every attempt.
attempt_recreating(a, in) ==
    IF in.display = "raises"
    THEN [a |-> a, raised |-> TRUE]
    ELSE
      LET a1 == [a EXCEPT !.display = TRUE, !.constructed = @ + 1]
      IN  IF in.providers = "raises"
          THEN [a |-> a1, raised |-> TRUE]
          ELSE [a |-> [a1 EXCEPT !.providers = TRUE, !.error_count = 0],
                raised |-> FALSE]

\* The try block of initialize: the display is built if there is none, the
\* providers are read, the error counter is reset.
attempt(a, in) ==
    IF ~a.display /\ in.display = "raises"
    THEN [a |-> a, raised |-> TRUE]
    ELSE
      LET a1 == IF ~a.display
                THEN [a EXCEPT !.display = TRUE, !.constructed = @ + 1]
                ELSE a
      IN  IF in.providers = "raises"
          THEN [a |-> a1, raised |-> TRUE]
          ELSE [a |-> [a1 EXCEPT !.providers = TRUE, !.error_count = 0],
                raised |-> FALSE]

\* The loop of Application.initialize from the given retry_count on.
RECURSIVE initialize_loop(_, _, _)
initialize_loop(a, o, retry_count) ==
    IF ~(retry_count < MAX_RETRIES)
    THEN Initialized(a, "None", retry_count)
    ELSE
      LET t == attempt(a, o[retry_count + 1])
      IN  IF ~t.raised
          THEN Initialized(t.a, "True", retry_count + 1)
          ELSE IF retry_count + 1 < MAX_RETRIES
          THEN initialize_loop(t.a, o, retry_count + 1)
          ELSE Initialized(t.a, "False", retry_count + 1)

\* Application.initialize; o[i] is what the i-th attempt meets.
Application_initialize(a, o) == initialize_loop(a, o, 0)

\* Application.update_display; upd is what display.update_display does and o
\* is what the attempts of initialize meet when the call re-initializes.
\* Reading the providers again after the interval keeps the list truthy, and
\* what it raises is caught.
Application_update_display(a, upd, o) ==
    IF ~a.display \/ ~a.providers
    THEN Initialized(a, "False", 0)
    ELSE IF upd = "True"
    THEN Initialized([a EXCEPT !.error_count = 0], "True", 0)
    ELSE IF upd = "False"
    THEN Initialized(a, "False", 0)
    ELSE
      LET a1 == [a EXCEPT !.error_count = @ + 1]
      IN  IF a1.error_count >= max_consecutive_errors
          THEN Application_initialize(a1, o)
          ELSE Initialized(a1, "False", 0)

\* Application.signal_handler: the flag is dropped, the display is cleared,
\* and sys.exit ends the loop.
Application_signal_handler(a) ==
    [a EXCEPT !.running = FALSE, !.cleared = IF a.display THEN @ + 1 ELSE @]

\* The call made last on the application; o holds what the attempts made by
\* initialize met.
NoApplicationCall ==
    [op |-> "init", upd |-> "", o |-> <<>>, ret |-> "None", attempts |-> 0,
     pre |-> Application]

\* Application.__init__, before run().
MainInit ==
    /\ width = 0 /\ height = 0 /\ areas = <<>> /\ objs = <<>>
    /\ last = NoCall /\ ncalls = 0
    /\ display = Nothing /\ dlast = Nothing
    /\ container = Nothing /\ clast = Nothing
    /\ application = Application
    /\ alast = NoApplicationCall
    /\ oled = Nothing
    /\ pc = "start"

\* A call on the application; of o the attempts made are recorded.
ApplicationCalled(r, call, to) ==
    /\ application' = r.a
    /\ alast' = [call EXCEPT !.ret = r.ret, !.attempts = r.attempts,
                    !.o = SubSeq(call.o, 1, r.attempts), !.pre = application]
    /\ pc' = to
    /\ UNCHANGED <<lvars, dvars, cvars, oled>>

\* run() up to the main loop: it returns when initialize did not succeed.
Run ==
    /\ pc = "start"
    /\ \E o \in InitializeInputs :
         LET r == Application_initialize(application, o)
         IN  ApplicationCalled(r, [NoApplicationCall EXCEPT !.op = "initialize", !.o = o],
                               IF r.ret = "True" THEN "loop" ELSE "exited")
    /\ UNCHANGED ncalls

\* One pass of the main loop in which the interval has elapsed.
MainUpdate ==
    /\ pc = "loop"
    /\ application.running
    /\ ncalls < MaxUpdates
    /\ \E upd \in { "True", "False", "raises" }, o \in InitializeInputs :
         ApplicationCalled(Application_update_display(application, upd, o),
                           [NoApplicationCall EXCEPT !.op = "update_display",
                               !.upd = upd, !.o = o],
                           "loop")
    /\ ncalls' = ncalls + 1

\* A shutdown signal between two passes of the main loop.
MainSignal ==
    /\ pc = "loop"
    /\ application.running
    /\ ApplicationCalled(Initialized(Application_signal_handler(application), "None", 0),
                         [NoApplicationCall EXCEPT !.op = "signal_handler"], "exited")
    /\ UNCHANGED ncalls

MainNext == Run \/ MainUpdate \/ MainSignal

MainSpec == MainInit /\ [][MainNext]_vars

\* ---------------------------------------------------------------- Application claims

\* The last call ran initialize.
Initializing ==
    \/ alast.op = "initialize"
    \/ alast.op = "update_display" /\ alast.attempts > 0

\* The i-th attempt of the initialize run last raised.
AttemptFailed(i) ==
    \/ alast.o[i].providers = "raises"
    \/ /\ alast.o[i].display = "raises"
       /\ ~alast.pre.display
       /\ \A j \in 1..(i - 1) : alast.o[j].display = "raises"

\* C29. Application.initialize ends after at most MAX_RETRIES attempts. It
\* returns True at the first attempt that succeeds, with error_count reset to
\* 0, and False once MAX_RETRIES attempts have failed; a display built by an
\* earlier attempt or an earlier call is kept and not built again.
C29_InitializeTerminates ==
    /\ application.constructed <= 1
    /\ application.display = (application.constructed = 1)
    /\ Initializing =>
         /\ alast.attempts \in 1..MAX_RETRIES
         /\ alast.ret \in { "True", "False" }
         /\ \A i \in 1..(alast.attempts - 1) : AttemptFailed(i)
         /\ alast.ret = "True" =>
              /\ ~AttemptFailed(alast.attempts)
              /\ application.error_count = 0
              /\ application.display /\ application.providers
         /\ alast.ret = "False" =>
              /\ alast.attempts = MAX_RETRIES
              /\ AttemptFailed(MAX_RETRIES)
         /\ alast.pre.display => application.constructed = alast.pre.constructed

\* initialize built the display in an attempt that failed, and succeeded in a
\* later attempt.
C29_Witness ==
    /\ alast.op = "initialize"
    /\ alast.ret = "True"
    /\ alast.attempts = MAX_RETRIES
    /\ alast.o[1] = [display |-> "ok", providers |-> "raises"]
    /\ application.constructed = 1

\* C30. error_count counts the consecutive failed updates and stays within
\* 0..max_consecutive_errors: an update that succeeds resets it to 0, an
\* update that raises adds one to it, and when it reaches
\* max_consecutive_errors the same update_display call re-initializes.
C30_ErrorCountBounded ==
    /\ application.error_count \in 0..max_consecutive_errors
    /\ (alast.op = "update_display" /\ alast.upd = "True") => application.error_count = 0
    /\ (alast.op = "update_display" /\ alast.upd = "raises") =>
         IF alast.pre.error_count + 1 >= max_consecutive_errors
         THEN alast.attempts > 0
         ELSE application.error_count = alast.pre.error_count + 1

\* ---------------------------------------------------------------- OLEDApplication (app.py)

\* The passes of the main loop in one run.
MaxTicks == 3

\* The containers the application registered.
NumContainers == 2

\* OLEDApplication.__init__ with a display that could be built: the flag, the
\* passes made, whether a signal was handled, and what was done to the
\* display, in order.
OLEDApplication == [running |-> TRUE, ticks |-> 0, signalled |-> FALSE, log |-> <<>>]

\* OLEDDisplay.cleanup: the buffer is cleared and the blank frame is shown.
display_cleanup(a) == [a EXCEPT !.log = Append(@, "teardown")]

\* OLEDApplication.cleanup; self.display is set and stays set.
OLEDApplication_cleanup(a) == display_cleanup(a)

\* OLEDApplication.signal_handler
OLEDApplication_signal_handler(a) ==
    OLEDApplication_cleanup([a EXCEPT !.running = FALSE, !.signalled = TRUE])

\* The positions of run(): the loop test, the phases of display.update()
\* (update and render are one position per container), the sleep, the
\* finally block, and the end.
AppInit ==
    /\ width = 0 /\ height = 0 /\ areas = <<>> /\ objs = <<>>
    /\ last = NoCall /\ ncalls = 0
    /\ display = Nothing /\ dlast = Nothing
    /\ container = Nothing /\ clast = Nothing
    /\ application = Nothing /\ alast = Nothing
    /\ oled = OLEDApplication
    /\ pc = <<"while", 0>>

\* A step of run(): what it does to the display and where it goes.
Step(event, to) ==
    /\ oled' = IF event = "" THEN oled ELSE [oled EXCEPT !.log = Append(@, event)]
    /\ pc' = to
    /\ UNCHANGED <<lvars, ncalls, dvars, cvars, application, alast>>

\* "while self.running"
LoopTest ==
    /\ pc = <<"while", 0>>
    /\ oled.running => oled.ticks < MaxTicks
    /\ Step("", IF oled.running THEN <<"update", 1>> ELSE <<"finally", 0>>)

\* display.update(): update() of the i-th container.
TickUpdate ==
    /\ pc[1] = "update"
    /\ Step("update", IF pc[2] < NumContainers
                      THEN <<"update", pc[2] + 1>> ELSE <<"clear", 0>>)

\* display.update(): the clear.
TickClear ==
    /\ pc = <<"clear", 0>>
    /\ Step("clear", <<"render", 1>>)

\* display.update(): render() of the i-th container.
TickRender ==
    /\ pc[1] = "render"
    /\ Step("render", IF pc[2] < NumContainers
                      THEN <<"render", pc[2] + 1>> ELSE <<"flush", 0>>)

\* display.update(): the flush.
TickFlush ==
    /\ pc = <<"flush", 0>>
    /\ Step("flush", <<"sleep", 0>>)

\* time.sleep(update_interval), which goes on after a handled signal.
Sleep ==
    /\ pc = <<"sleep", 0>>
    /\ oled' = [oled EXCEPT !.ticks = @ + 1]
    /\ pc' = <<"while", 0>>
    /\ UNCHANGED <<lvars, ncalls, dvars, cvars, application, alast>>

\* The finally block of run().
Finally ==
    /\ pc = <<"finally", 0>>
    /\ oled' = OLEDApplication_cleanup(oled)
    /\ pc' = <<"done", 0>>
    /\ UNCHANGED <<lvars, ncalls, dvars, cvars, application, alast>>

\* SIGINT or SIGTERM: the interpreter runs the handler in the main thread
\* between two instructions of run(), which then goes on where it was.
Signal ==
    /\ pc[1] \notin { "finally", "done" }
    /\ ~oled.signalled
    /\ oled' = OLEDApplication_signal_handler(oled)
    /\ UNCHANGED <<lvars, ncalls, dvars, cvars, application, alast, pc>>

AppNext ==
    \/ LoopTest \/ TickUpdate \/ TickClear \/ TickRender \/ TickFlush \/ Sleep
    \/ Finally \/ Signal

AppSpec == AppInit /\ [][AppNext]_vars

\* ---------------------------------------------------------------- OLEDApplication claims

\* The positions of the log that hold the given event.
At(event) == { i \in 1..Len(oled.log) : oled.log[i] = event }

\* What one whole tick does to the display.
TickLen == 2 * NumContainers + 2

\* C22. When a signal asks for shutdown while the main loop runs, the tick
\* in flight finishes before the teardown, the teardown of the display
\* (cleanup: clear and flush of the blank frame) is performed exactly once,
\* and nothing is rendered or flushed after it.
C22_TeardownOnceAfterTick ==
    /\ Cardinality(At("teardown")) <= 1
    /\ (pc = <<"done", 0>> /\ oled.signalled) => Cardinality(At("teardown")) = 1
    /\ \A i \in At("teardown") :
         /\ (i - 1) % TickLen = 0
         /\ \A j \in (i + 1)..Len(oled.log) : oled.log[j] \notin { "render", "flush" }

====
